---- MODULE Spec2Model ----
(***************************************************************************)
(* State-machine model of the documentation pipelines of doc-structure-neo *)
(*   GitDrivenDocPipeline   (src/pipelines/2-git-driven/pipeline.py)       *)
(*   FullStackDocPipeline   (src/pipelines/6-full-stack/pipeline.py)       *)
(*   CodeAwareDocGenerator  (src/pipelines/1-code-aware/pipeline.py)       *)
(* Paths, module ids and output names are tuples of one-character strings, *)
(* so that the string conversions of the code are computed, not assumed.   *)
(***************************************************************************)
EXTENDS Integers, Sequences, FiniteSets, TLC

VARIABLES
    \* ---- GitDrivenDocPipeline ----
    repo,             \* the .py files under repo_dir: path -> [imports, utf8]
    pc,               \* position of GitDrivenDocPipeline.run
    changed,          \* run(): changed = self.get_changed_files()
    dep_graph,        \* self.dep_graph   (imported -> set of importing modules)
    import_map,       \* self.import_map  (module -> set of imported names)
    changed_modules,  \* resolve_affected: changed_modules
    affected,         \* resolve_affected: affected
    queue,            \* resolve_affected: queue
    visited,          \* resolve_affected: visited
    regenerated,      \* regenerate_docs: regenerated
    docs,             \* the *.md files of output_dir: name -> module written
    report,           \* build-report.json: whether it exists, and what it holds
    diff_result,      \* how the git diff of get_changed_files ended, "none" before
    expansions,       \* module id -> times the loop of resolve_affected expanded it
    py_files,         \* build_dependency_graph: the files the outer loop has still to scan
    matches,          \* build_dependency_graph: the imports of the file still to process
    \* ---- FullStackDocPipeline ----
    files,            \* the files under project_dir: path -> content
    cache_file,       \* .doc-cache.json: [kind, data], data being path -> hash
    fpc,              \* position of FullStackDocPipeline.run
    fchanged,         \* run(): changed
    analysis,         \* run(): analysis
    stages,           \* self.report['stages'], the stage names in order
    errors,           \* self.report['errors']
    search_index,     \* search-index.json: [exists, sources of its chunks]
    site_index,       \* site/index.html: [exists, the files it links]
    pages,            \* site/<safe>.html: name -> page
    report_file,      \* pipeline-report.json: whether it exists, and what it holds
    \* ---- CodeAwareDocGenerator ----
    sources,          \* the files under source_dir: path -> content
    registry_file,    \* registry.json: [kind, data], data being the list written
    md_files,         \* the *.md files of output_dir: name -> what was rendered
    cpc,              \* position of CodeAwareDocGenerator.run
    pending,          \* run(): the files the loop has still to go through
    existing_registry, \* run(): existing_registry
    registry,         \* self.registry
    generated,        \* the files the current run has rendered (bookkeeping)
    parsed,           \* the files the current run gave to parse_python_file (bookkeeping)
    docs0,            \* md_files as it was when the current run started (bookkeeping)
    scanned,          \* the files scan_files returned to the current run (bookkeeping)
    cruns,            \* runs of the generator started so far (bookkeeping)
    cedits,           \* edits made between its runs so far (bookkeeping)
    \* ---- the functions of paths, applied on their own ----
    project_dir,      \* self.project_dir of the pipeline object
    rel_paths,        \* two paths under project_dir (repo_dir), relative to it
    applied,          \* the functions applied so far
    skipped,          \* what _should_skip returned for the first path
    md_written,       \* the .md files written for the modules of the two paths
    html_written,     \* the .html pages written for the two paths
    \* ---- bookkeeping of the model, read by no operation ----
    runs,             \* runs started so far
    edits,            \* edits of the project made so far
    written,          \* the output files written by the current run
    store0,           \* cache_file as it was when the current run started
    touched,          \* the project or the cache was edited since the last run started
    quiet,            \* the current run follows a completed run, nothing edited between
    raised            \* the stage of the current run that raised, or "none"

gitVars == <<repo, pc, changed, dep_graph, import_map, changed_modules,
             affected, queue, visited, regenerated, docs, report,
             diff_result, expansions>>

fsVars == <<files, cache_file, fpc, fchanged, analysis, stages, errors,
            search_index, site_index, pages, report_file,
            runs, edits, written, store0, touched, quiet, raised>>

caVars == <<sources, registry_file, md_files, cpc, pending, existing_registry,
            registry, generated, parsed, docs0, scanned, cruns, cedits>>

buildVars == <<py_files, matches>>

fnVars == <<project_dir, rel_paths, applied, skipped, md_written, html_written>>

vars == <<gitVars, fsVars, caVars, buildVars, fnVars>>

-----------------------------------------------------------------------------
(* Strings.                                                                *)

\* ord() of the characters that occur in the model's strings
CharCode(c) ==
    CASE c = "." -> 46 [] c = "/" -> 47 [] c = "_" -> 95
      [] c = "a" -> 97 [] c = "b" -> 98 [] c = "d" -> 100
      [] c = "e" -> 101 [] c = "g" -> 103 [] c = "h" -> 104
      [] c = "i" -> 105 [] c = "m" -> 109 [] c = "n" -> 110
      [] c = "o" -> 111 [] c = "p" -> 112 [] c = "r" -> 114
      [] c = "s" -> 115 [] c = "t" -> 116 [] c = "u" -> 117
      [] c = "v" -> 118 [] c = "w" -> 119 [] c = "y" -> 121

\* str.endswith(suf)
EndsWith(s, suf) ==
    /\ Len(s) >= Len(suf)
    /\ SubSeq(s, Len(s) - Len(suf) + 1, Len(s)) = suf

\* str.replace(c, d) for one-character c and d
ReplaceChar(s, c, d) == [i \in 1..Len(s) |-> IF s[i] = c THEN d ELSE s[i]]

\* str.rstrip(chars): drops every trailing character that is in chars
RECURSIVE RStrip(_, _)
RStrip(s, chars) ==
    IF s = <<>> \/ s[Len(s)] \notin chars
    THEN s
    ELSE RStrip(SubSeq(s, 1, Len(s) - 1), chars)

\* s < t in Python's string order
RECURSIVE StrLess(_, _)
StrLess(s, t) ==
    IF t = <<>> THEN FALSE
    ELSE IF s = <<>> THEN TRUE
    ELSE IF s[1] # t[1] THEN CharCode(s[1]) < CharCode(t[1])
    ELSE StrLess(Tail(s), Tail(t))

\* sorted(S) for a set of strings
Sorted(S) ==
    CHOOSE q \in [1..Cardinality(S) -> S] :
        \A i, j \in 1..Cardinality(S) : i < j => StrLess(q[i], q[j])

\* the orders in which a set can be iterated
Orders(S) ==
    {q \in [1..Cardinality(S) -> S] :
        \A i, j \in 1..Cardinality(S) : i # j => q[i] # q[j]}

Sep == "/"
DotPy == <<".", "p", "y">>
InitPy == <<"_", "_", "i", "n", "i", "t", "_", "_">> \o DotPy
DotMd == <<".", "m", "d">>

-----------------------------------------------------------------------------
(* GitDrivenDocPipeline: the repositories and inputs of the model.         *)

MaxImports == 2      \* import statements in the repository
MaxChanged == 2      \* names printed by git diff

A_py == <<"a">> \o DotPy
B_py == <<"b">> \o DotPy
AP_py == <<"a", "p">> \o DotPy
PA_py == <<"p", Sep, "a">> \o DotPy
R_md == <<"r">> \o DotMd

\* the .py paths a repository of the model may hold, relative to repo_dir
PyPaths == {A_py, B_py, AP_py, PA_py}

\* the names git diff may print: any of the paths (deleted ones too) and a
\* file that is no Python source
DiffNames == PyPaths \cup {R_md}

\* the names an import statement of the model may name
ImportNames == {<<"a">>, <<"b">>, <<"p", ".", "a">>, <<"o", "s">>}

\* a file whose bytes are not UTF-8 has no text, hence no imports
FileContents ==
    {c \in [imports : SUBSET ImportNames, utf8 : BOOLEAN] :
        /\ Cardinality(c.imports) <= MaxImports
        /\ ~c.utf8 => c.imports = {}}

RECURSIVE SumImports(_, _)
SumImports(r, fs) ==
    IF fs = {} THEN 0
    ELSE LET f == CHOOSE x \in fs : TRUE
         IN  Cardinality(r[f].imports) + SumImports(r, fs \ {f})

Repos ==
    UNION {
        {r \in [E -> FileContents] :
            /\ SumImports(r, E) <= MaxImports
            /\ Cardinality({f \in E : ~r[f].utf8}) <= 1}
        : E \in SUBSET PyPaths}

Empty == <<>>

\* output_dir holds no build-report.json
NoReport ==
    [exists |-> FALSE, changed_files |-> {}, affected_modules |-> {},
     regenerated |-> <<>>]

\* dict.get(k, set()) on a defaultdict(set): a lookup that inserts nothing
Get(g, k) == IF k \in DOMAIN g THEN g[k] ELSE {}

\* g[k].add(v) for every pair <<k, v>>, on a defaultdict(set)
AddAll(g, pairs) ==
    [k \in DOMAIN g \cup {p[1] : p \in pairs} |->
        Get(g, k) \cup {p[2] : p \in {x \in pairs : x[1] = k}}]

-----------------------------------------------------------------------------
(* GitDrivenDocPipeline: the operations.                                   *)

\* build_dependency_graph: the module id of a scanned file
BuildModule(f) == RStrip(ReplaceChar(f, Sep, "."), {".", "p", "y"})

\* resolve_affected: the module id of a changed file
ChangedModule(f) == RStrip(ReplaceChar(f, Sep, "."), {".", "p", "y"})

\* regenerate_docs: the source files tried for a module, in order
Candidates(m) ==
    <<ReplaceChar(m, ".", Sep) \o DotPy,
      ReplaceChar(m, ".", Sep) \o <<Sep>> \o InitPy>>

\* regenerate_docs: the name of the output file of a module
OutName(m) == ReplaceChar(m, ".", "_") \o DotMd

GitInit ==
    /\ repo \in Repos
    /\ pc = "start"
    /\ changed = {}
    /\ dep_graph = Empty
    /\ import_map = Empty
    /\ changed_modules = {}
    /\ affected = {}
    /\ queue = <<>>
    /\ visited = {}
    /\ regenerated = <<>>
    /\ docs = Empty
    /\ report = NoReport
    /\ diff_result = "none"
    /\ expansions = Empty
    /\ py_files = <<>>
    /\ matches = <<>>

\* subprocess.run(['git', 'diff', ...], timeout=30) without check=True: git
\* prints the names and exits 0 ("ok"); git exits non-zero with nothing on
\* stdout, as it does outside a work tree or when base_ref names no commit
\* ("failed"); TimeoutExpired is raised ("timeout"); there is no git to
\* execute and FileNotFoundError is raised ("notfound")
DiffResults == {"ok", "failed", "timeout", "notfound"}

\* get_changed_files, and the early return of run() on an empty list
GetChangedFiles ==
    /\ pc = "start"
    /\ \E kind \in DiffResults :
       \E names \in {D \in SUBSET DiffNames : Cardinality(D) <= MaxChanged} :
          /\ kind # "ok" => names = {}
          /\ changed' = IF kind \in {"ok", "failed"} THEN names ELSE DOMAIN repo
          /\ diff_result' = kind
    /\ pc' = IF changed' = {} THEN "done" ELSE "build"
    /\ UNCHANGED <<fsVars, caVars, buildVars, fnVars>>
    /\ UNCHANGED <<repo, dep_graph, import_map, changed_modules, affected,
                   queue, visited, regenerated, docs, report, expansions>>

\* build_dependency_graph, line 61: self.import_map[module].add(imported)
AddImportMap(im, module, imported) == AddAll(im, {<<module, imported>>})

\* self.dep_graph[module].add(imported): the edge from importer to imported
AddDepGraphForward(dg, imported, module) == AddAll(dg, {<<module, imported>>})

\* build_dependency_graph, line 62: self.dep_graph[imported].add(module)
AddDepGraph(dg, imported, module) == AddAll(dg, {<<imported, module>>})

\* build_dependency_graph, line 49: the .py files, in the order rglob
\* yields them
ListPyFiles ==
    /\ pc = "build"
    /\ \E ord \in Orders(DOMAIN repo) : py_files' = ord
    /\ pc' = "build_scan"
    /\ UNCHANGED <<fsVars, caVars, fnVars>>
    /\ UNCHANGED <<repo, changed, dep_graph, import_map, changed_modules,
                   affected, queue, visited, regenerated, docs, report,
                   diff_result, expansions, matches>>

\* build_dependency_graph, lines 53-59: the next file is read; one that
\* cannot be read is passed over, the imports of the others are matched in
\* the order of the text
ReadFile ==
    /\ pc = "build_scan"
    /\ py_files # <<>>
    /\ LET filepath == Head(py_files)
       IN  IF repo[filepath].utf8
           THEN /\ \E ord \in Orders(repo[filepath].imports) : matches' = ord
                /\ pc' = "build_imports"
                /\ UNCHANGED py_files
           ELSE /\ py_files' = Tail(py_files)
                /\ UNCHANGED <<matches, pc>>
    /\ UNCHANGED <<fsVars, caVars, fnVars>>
    /\ UNCHANGED <<repo, changed, dep_graph, import_map, changed_modules,
                   affected, queue, visited, regenerated, docs, report,
                   diff_result, expansions>>

\* build_dependency_graph, lines 59-62: one import statement is processed
AddImport ==
    /\ pc = "build_imports"
    /\ matches # <<>>
    /\ LET module == BuildModule(Head(py_files))
           imported == Head(matches)
       IN  /\ import_map' = AddImportMap(import_map, module, imported)
           /\ dep_graph' = AddDepGraph(dep_graph, imported, module)
    /\ matches' = Tail(matches)
    /\ UNCHANGED <<fsVars, caVars, fnVars>>
    /\ UNCHANGED <<repo, pc, changed, changed_modules, affected, queue,
                   visited, regenerated, docs, report, diff_result,
                   expansions, py_files>>

\* build_dependency_graph, line 59: the matches of the file are exhausted
NextFile ==
    /\ pc = "build_imports"
    /\ matches = <<>>
    /\ py_files' = Tail(py_files)
    /\ pc' = "build_scan"
    /\ UNCHANGED <<fsVars, caVars, fnVars>>
    /\ UNCHANGED <<repo, changed, dep_graph, import_map, changed_modules,
                   affected, queue, visited, regenerated, docs, report,
                   diff_result, expansions, matches>>

\* build_dependency_graph, lines 64-65: every file is scanned
EndBuild ==
    /\ pc = "build_scan"
    /\ py_files = <<>>
    /\ pc' = "resolve_init"
    /\ UNCHANGED <<fsVars, caVars, fnVars>>
    /\ UNCHANGED <<repo, changed, dep_graph, import_map, changed_modules,
                   affected, queue, visited, regenerated, docs, report,
                   diff_result, expansions, py_files, matches>>

\* build_dependency_graph as one step: files that cannot be read are passed
\* over
BuildDependencyGraph ==
    /\ pc = "build"
    /\ LET readable == {f \in DOMAIN repo : repo[f].utf8}
           found == {<<f, i>> \in readable \X ImportNames : i \in repo[f].imports}
       IN  /\ import_map' = AddAll(import_map, {<<BuildModule(x[1]), x[2]>> : x \in found})
           /\ dep_graph' = AddAll(dep_graph, {<<x[2], BuildModule(x[1])>> : x \in found})
    /\ pc' = "resolve_init"
    /\ UNCHANGED <<fsVars, caVars, buildVars, fnVars>>
    /\ UNCHANGED <<repo, changed, changed_modules, affected, queue, visited,
                   regenerated, docs, report, diff_result, expansions>>

\* affected = set() in place of set(changed_modules)
SeedAffectedEmpty(cm) == {}

\* resolve_affected, line 75: affected = set(changed_modules)
SeedAffected(cm) == cm

\* queue = list(changed_modules)[:1]: only the first changed module is queued
SeedQueueFirst(ord) == IF ord = <<>> THEN <<>> ELSE <<Head(ord)>>

\* resolve_affected, line 76: queue = list(changed_modules), ord being the
\* order in which the set is iterated
SeedQueue(ord) == ord

ResolveInit ==
    /\ pc = "resolve_init"
    /\ changed_modules' = {ChangedModule(f) : f \in {x \in changed : EndsWith(x, DotPy)}}
    /\ affected' = SeedAffected(changed_modules')
    /\ \E ord \in Orders(changed_modules') : queue' = SeedQueue(ord)
    /\ visited' = {}
    /\ pc' = "resolve"
    /\ UNCHANGED <<fsVars, caVars, buildVars, fnVars>>
    /\ UNCHANGED <<repo, changed, dep_graph, import_map, regenerated, docs,
                   report, diff_result, expansions>>

\* queue[0] in place of queue.pop(0): the head is read and never removed
AfterPopPeek(q) == q

\* queue.pop(0): what is left of the queue
AfterPop(q) == Tail(q)

\* an id without entry is looked up again by its last component
NewDependentsByLeaf(current, aff) ==
    (IF current \in DOMAIN dep_graph
     THEN dep_graph[current]
     ELSE Get(dep_graph, <<current[Len(current)]>>)) \ aff

\* the graph is looked up by the file name of current, not by its module id
NewDependentsOfFile(current, aff) == Get(dep_graph, current \o DotPy) \ aff

\* only the dependents of the changed modules are followed
NewDependentsDirect(current, aff) ==
    IF current \in changed_modules THEN Get(dep_graph, current) \ aff ELSE {}

\* resolve_affected, lines 83-86: the dependents of current that the loop
\* body adds to affected and to the queue
NewDependents(current, aff) == Get(dep_graph, current) \ aff

\* g[k] on a defaultdict(set): a lookup of a missing key inserts it
AfterGetItem(g, k) ==
    [x \in DOMAIN g \cup {k} |-> IF x \in DOMAIN g THEN g[x] ELSE {}]

\* the map after g.get(k, set()): get inserts nothing, on a defaultdict too
AfterGet(g, k) == g

\* the map after g.get(k, set()) for every k of a list
RECURSIVE AfterGets(_, _)
AfterGets(g, ks) ==
    IF ks = <<>> THEN g ELSE AfterGets(AfterGet(g, Head(ks)), Tail(ks))

\* the loop body without its visited.add(current)
MarkVisitedNever(vis, current) == vis

\* resolve_affected, line 82: visited.add(current)
MarkVisited(vis, current) == vis \cup {current}

\* one more expansion of module m is counted
Count(e, m) ==
    [k \in DOMAIN e \cup {m} |->
        IF k = m THEN (IF m \in DOMAIN e THEN e[m] ELSE 0) + 1 ELSE e[k]]

\* resolve_affected, lines 78-86: one iteration of the while loop
ResolveStep ==
    /\ pc = "resolve"
    /\ queue # <<>>
    /\ LET current == Head(queue)
       IN  IF current \in visited
           THEN /\ queue' = AfterPop(queue)
                /\ UNCHANGED <<visited, affected, expansions, dep_graph>>
           ELSE /\ visited' = MarkVisited(visited, current)
                /\ dep_graph' = AfterGet(dep_graph, current)
                /\ affected' = affected \cup NewDependents(current, affected)
                /\ \E ord \in Orders(NewDependents(current, affected)) :
                      queue' = AfterPop(queue) \o ord
                /\ expansions' = Count(expansions, current)
    /\ UNCHANGED <<fsVars, caVars, buildVars, fnVars>>
    /\ UNCHANGED <<repo, pc, changed, import_map, changed_modules,
                   regenerated, docs, report, diff_result>>

\* resolve_affected, lines 78 and 88-89: the loop ends, affected is returned
ResolveReturn ==
    /\ pc = "resolve"
    /\ queue = <<>>
    /\ pc' = "regen"
    /\ UNCHANGED <<fsVars, caVars, buildVars, fnVars>>
    /\ UNCHANGED <<repo, changed, dep_graph, import_map, changed_modules,
                   affected, queue, visited, regenerated, docs, report,
                   diff_result, expansions>>

\* out_path.write_text(doc_content): the file is created or replaced
WriteDoc(d, name, doc) ==
    [n \in DOMAIN d \cup {name} |-> IF n = name THEN doc ELSE d[n]]

\* regenerate_docs, lines 97-98: some candidate of the module exists
HasSource(m) == \E i \in 1..Len(Candidates(m)) : Candidates(m)[i] \in DOMAIN repo

\* regenerate_docs, lines 97-99: the first candidate that exists
SourceOf(m) ==
    LET hit == {i \in 1..Len(Candidates(m)) : Candidates(m)[i] \in DOMAIN repo}
    IN  Candidates(m)[CHOOSE i \in hit : \A j \in hit : i <= j]

\* regenerate_docs, lines 94-105, over the modules still to do.  The first
\* candidate that exists is documented; _generate_doc reads it as UTF-8 and
\* nothing in regenerate_docs or run catches what read_text raises.
RECURSIVE RegenFrom(_, _, _)
RegenFrom(mods, d, regen) ==
    IF mods = <<>>
    THEN [docs |-> d, regenerated |-> regen, raised |-> FALSE]
    ELSE LET m == Head(mods)
         IN  IF ~HasSource(m)
             THEN RegenFrom(Tail(mods), d, regen)
             ELSE LET c == SourceOf(m)
                  IN  IF ~repo[c].utf8
                      THEN [docs |-> d, regenerated |-> regen, raised |-> TRUE]
                      ELSE RegenFrom(Tail(mods),
                                     WriteDoc(d, OutName(m), [module |-> m, source |-> c]),
                                     regen \o <<m>>)

\* regenerate_docs(affected), called from run(); _generate_doc looks the
\* module up in both maps (lines 111-112) once its source is read
RegenerateDocs ==
    /\ pc = "regen"
    /\ LET r == RegenFrom(Sorted(affected), docs, <<>>)
       IN  /\ docs' = r.docs
           /\ regenerated' = r.regenerated
           /\ import_map' = AfterGets(import_map, r.regenerated)
           /\ dep_graph' = AfterGets(dep_graph, r.regenerated)
           /\ pc' = IF r.raised THEN "crashed" ELSE "report"
    /\ UNCHANGED <<fsVars, caVars, buildVars, fnVars>>
    /\ UNCHANGED <<repo, changed, changed_modules, affected, queue, visited,
                   report, diff_result, expansions>>

\* run(), lines 141-149: build-report.json is written
WriteReport ==
    /\ pc = "report"
    /\ report' = [exists |-> TRUE,
                  changed_files |-> changed,
                  affected_modules |-> affected,
                  regenerated |-> regenerated]
    /\ pc' = "done"
    /\ UNCHANGED <<fsVars, caVars, buildVars, fnVars>>
    /\ UNCHANGED <<repo, changed, dep_graph, import_map, changed_modules,
                   affected, queue, visited, regenerated, docs, diff_result,
                   expansions>>

-----------------------------------------------------------------------------
(* FullStackDocPipeline: the projects and inputs of the model.             *)

MaxRuns == 3         \* runs of the pipeline on one output directory
MaxEdits == 1        \* edits of the project between runs

\* DEFAULT_CONFIG
Extensions ==
    {DotPy, <<".", "j", "s">>, <<".", "t", "s">>, <<".", "j", "s", "x">>,
     <<".", "t", "s", "x">>, DotMd}
IgnorePatterns ==
    {<<".", "g", "i", "t">>,
     <<"n", "o", "d", "e", "_", "m", "o", "d", "u", "l", "e", "s">>,
     <<"_", "_", "p", "y", "c", "a", "c", "h", "e", "_", "_">>,
     <<".", "v", "e", "n", "v">>, <<"v", "e", "n", "v">>}

\* project_dir, resolved
ProjectDir == <<Sep, "w">>

\* the paths a project of the model may hold, relative to project_dir
ProjectPaths == {A_py, B_py, R_md}

\* the contents of a file: two texts that parse, and one that ast.parse rejects
Parsing == {"v1", "v2"}
Contents == Parsing \cup {"bad"}
ContentsOf(f) == IF EndsWith(f, DotPy) THEN Contents ELSE Parsing

\* sub in s
Contains(s, sub) ==
    \E i \in 0..(Len(s) - Len(sub)) : SubSeq(s, i + 1, i + Len(sub)) = sub

\* _should_skip(filepath), filepath being dir / rel
ShouldSkipIn(dir, rel) ==
    \E p \in IgnorePatterns : Contains(dir \o <<Sep>> \o rel, p)

\* _should_skip(filepath) in the project of the model
ShouldSkip(rel) == ShouldSkipIn(ProjectDir, rel)

\* hashlib.md5(bytes).hexdigest(): equal digests only for equal bytes
Md5(c) == <<"md5", c>>

\* stage_site_generation: the name of a module page
SafeName(fp) == ReplaceChar(ReplaceChar(fp, Sep, "_"), ".", "_")

\* an output file of the run
Out(kind, name) == [kind |-> kind, name |-> name]

\* d[k] = v on a dict
Put(d, k, v) == [x \in DOMAIN d \cup {k} |-> IF x = k THEN v ELSE d[x]]

Ended == {"idle", "done", "crashed", "aborted"}

\* .doc-cache.json: absent, unparsable, or the JSON object last written
NoCache == [kind |-> "missing", data |-> Empty]
BadCache == [kind |-> "corrupt", data |-> Empty]
Cache(d) == [kind |-> "json", data |-> d]

\* an output file listing sources: absent, or written with these sources
NoListing == [exists |-> FALSE, sources |-> {}]
Listing(S) == [exists |-> TRUE, sources |-> S]

\* output_dir holds no pipeline-report.json
NoRunReport ==
    [exists |-> FALSE, stages |-> <<>>, errors |-> {}, files_analyzed |-> 0]

-----------------------------------------------------------------------------
(* FullStackDocPipeline: the operations.                                   *)

FSInit ==
    /\ files \in UNION {[E -> {"v1", "bad"}] : E \in SUBSET ProjectPaths}
    /\ \A f \in DOMAIN files : files[f] \in ContentsOf(f)
    /\ cache_file = NoCache
    /\ fpc = "idle"
    /\ fchanged = {}
    /\ analysis = Empty
    /\ stages = <<>>
    /\ errors = {}
    /\ search_index = NoListing
    /\ site_index = NoListing
    /\ pages = Empty
    /\ report_file = NoRunReport
    /\ runs = 0
    /\ edits = 0
    /\ written = {}
    /\ store0 = NoCache
    /\ touched = FALSE
    /\ quiet = FALSE
    /\ raised = "none"

\* a file of the project is created, rewritten or deleted between two runs
EditFile ==
    /\ fpc \in Ended
    /\ edits < MaxEdits
    /\ \E f \in ProjectPaths :
          \/ \E c \in ContentsOf(f) :
                /\ f \in DOMAIN files => files[f] # c
                /\ files' = Put(files, f, c)
          \/ /\ f \in DOMAIN files
             /\ files' = [x \in DOMAIN files \ {f} |-> files[x]]
    /\ edits' = edits + 1
    /\ touched' = TRUE
    /\ UNCHANGED <<gitVars, caVars, buildVars, fnVars>>
    /\ UNCHANGED <<cache_file, fpc, fchanged, analysis, stages, errors,
                   search_index, site_index, pages, report_file, runs,
                   written, store0, quiet, raised>>

\* .doc-cache.json is damaged between two runs
CorruptCache ==
    /\ fpc \in Ended
    /\ cache_file.kind = "json"
    /\ cache_file' = BadCache
    /\ touched' = TRUE
    /\ UNCHANGED <<gitVars, caVars, buildVars, fnVars>>
    /\ UNCHANGED <<files, fpc, fchanged, analysis, stages, errors,
                   search_index, site_index, pages, report_file, runs, edits,
                   written, store0, quiet, raised>>

\* __init__ and the head of run(): a new pipeline object starts a run
StartRun ==
    /\ fpc \in Ended
    /\ runs < MaxRuns
    /\ fpc' = "change_detection"
    /\ fchanged' = {}
    /\ analysis' = Empty
    /\ stages' = <<>>
    /\ errors' = {}
    /\ runs' = runs + 1
    /\ written' = {}
    /\ store0' = cache_file
    /\ quiet' = (fpc = "done" /\ ~touched)
    /\ touched' = FALSE
    /\ raised' = "none"
    /\ UNCHANGED <<gitVars, caVars, buildVars, fnVars>>
    /\ UNCHANGED <<files, cache_file, search_index, site_index, pages,
                   report_file, edits>>

\* self.report['stages'].insert(0, stage) in place of append(stage)
RecordFirst(st, name) == <<name>> \o st

\* self.report['stages'].append(stage), the last statement but two of a stage
Record(st, name) == Append(st, name)

\* stage_change_detection: the files the two loops reach
Enumerated ==
    {f \in DOMAIN files :
        /\ \E ext \in Extensions : EndsWith(f, ext)
        /\ ~ShouldSkip(f)}

\* rel in old_cache and old_cache[rel] != content_hash: a file the store
\* does not know is not reported
IsChangedKnown(old, rel, h) == rel \in DOMAIN old /\ old[rel] # h

\* stage_change_detection, line 70: old_cache.get(rel) != content_hash
IsChanged(old, rel, h) == rel \notin DOMAIN old \/ old[rel] # h

\* stage_change_detection.  json.loads raises on a damaged cache file, and
\* nothing in the stage or in run() catches it.
StageChangeDetection ==
    /\ fpc = "change_detection"
    /\ IF cache_file.kind = "corrupt"
       THEN /\ fpc' = "crashed"
            /\ raised' = "change_detection"
            /\ UNCHANGED <<cache_file, fchanged, stages, written>>
       ELSE LET old_cache == IF cache_file.kind = "missing" THEN Empty ELSE cache_file.data
                new_cache == [f \in Enumerated |-> Md5(files[f])]
            IN  /\ fchanged' = {f \in Enumerated : IsChanged(old_cache, f, new_cache[f])}
                /\ cache_file' = Cache(new_cache)
                /\ written' = written \cup {Out("cache", <<>>)}
                /\ stages' = Record(stages, "change_detection")
                /\ fpc' = "code_analysis"
                /\ UNCHANGED raised
    /\ UNCHANGED <<gitVars, caVars, buildVars, fnVars>>
    /\ UNCHANGED <<files, analysis, errors, search_index, site_index, pages,
                   report_file, runs, edits, store0, touched, quiet>>

\* stage_code_analysis, lines 89-91: the files the stage goes through
FilesToAnalyze(ch) ==
    IF ch # {}
    THEN {f \in ch : EndsWith(f, DotPy)}
    ELSE {f \in DOMAIN files : EndsWith(f, DotPy)}

\* stage_code_analysis(changed if changed else None)
StageCodeAnalysis ==
    /\ fpc = "code_analysis"
    /\ LET todo == {f \in FilesToAnalyze(fchanged) :
                       f \in DOMAIN files /\ ~ShouldSkip(f)}
           good == {f \in todo : files[f] \in Parsing}
       IN  /\ analysis' = [f \in good |-> files[f]]
           /\ errors' = errors \cup {<<"Parse error in", f>> : f \in todo \ good}
    /\ stages' = Record(stages, "code_analysis")
    /\ fpc' = "rag_indexing"
    /\ UNCHANGED <<gitVars, caVars, buildVars, fnVars>>
    /\ UNCHANGED <<files, cache_file, fchanged, search_index, site_index,
                   pages, report_file, runs, edits, written, store0, touched,
                   quiet, raised>>

\* stage_rag_indexing(analysis): search-index.json is rewritten with the
\* chunks of the analyzed files (every text of the model that parses
\* defines something, so every analyzed file has a chunk)
StageRagIndexing ==
    /\ fpc = "rag_indexing"
    /\ search_index' = Listing(DOMAIN analysis)
    /\ written' = written \cup {Out("search-index", <<>>)}
    /\ stages' = Record(stages, "rag_indexing")
    /\ fpc' = "living_docs"
    /\ UNCHANGED <<gitVars, caVars, buildVars, fnVars>>
    /\ UNCHANGED <<files, cache_file, fchanged, analysis, errors, site_index,
                   pages, report_file, runs, edits, store0, touched, quiet,
                   raised>>

\* stage_living_docs: counts only
StageLivingDocs ==
    /\ fpc = "living_docs"
    /\ stages' = Record(stages, "living_docs")
    /\ fpc' = "site_generation"
    /\ UNCHANGED <<gitVars, caVars, buildVars, fnVars>>
    /\ UNCHANGED <<files, cache_file, fchanged, analysis, errors, search_index,
                   site_index, pages, report_file, runs, edits, written,
                   store0, touched, quiet, raised>>

\* stage_site_generation, lines 283-321: one page per analyzed file
WritePages(pg, an) ==
    [n \in DOMAIN pg \cup {SafeName(f) : f \in DOMAIN an} |->
        IF \E f \in DOMAIN an : SafeName(f) = n
        THEN LET f == CHOOSE x \in DOMAIN an : SafeName(x) = n
             IN  [source |-> f, items |-> an[f], run |-> runs]
        ELSE pg[n]]

\* stage_site_generation(analysis, chunks, living_docs)
StageSiteGeneration ==
    /\ fpc = "site_generation"
    /\ site_index' = Listing(DOMAIN analysis)
    /\ pages' = WritePages(pages, analysis)
    /\ written' = written \cup {Out("style", <<>>), Out("index", <<>>)}
                          \cup {Out("page", SafeName(f)) : f \in DOMAIN analysis}
    /\ stages' = Record(stages, "site_generation")
    /\ fpc' = "report"
    /\ UNCHANGED <<gitVars, caVars, buildVars, fnVars>>
    /\ UNCHANGED <<files, cache_file, fchanged, analysis, errors, search_index,
                   report_file, runs, edits, store0, touched, quiet, raised>>

\* run(), lines 346-357: pipeline-report.json is written
WriteRunReport ==
    /\ fpc = "report"
    /\ report_file' = [exists |-> TRUE, stages |-> stages, errors |-> errors,
                       files_analyzed |-> Cardinality(DOMAIN analysis)]
    /\ written' = written \cup {Out("report", <<>>)}
    /\ fpc' = "done"
    /\ UNCHANGED <<gitVars, caVars, buildVars, fnVars>>
    /\ UNCHANGED <<files, cache_file, fchanged, analysis, stages, errors,
                   search_index, site_index, pages, runs, edits, store0,
                   touched, quiet, raised>>

\* the process is interrupted between two stages of run()
Abort ==
    /\ fpc \in {"code_analysis", "rag_indexing", "living_docs",
                "site_generation", "report"}
    /\ fpc' = "aborted"
    /\ UNCHANGED <<gitVars, caVars, buildVars, fnVars>>
    /\ UNCHANGED <<files, cache_file, fchanged, analysis, stages, errors,
                   search_index, site_index, pages, report_file, runs, edits,
                   written, store0, touched, quiet, raised>>

-----------------------------------------------------------------------------
(* CodeAwareDocGenerator: the source trees and inputs of the model.        *)

\* the paths a source tree of the model may hold, relative to source_dir
SourcePaths == {A_py, B_py, R_md}

\* the contents of a .py file: two texts that define a function or a class,
\* a text that parses and defines none, a text ast.parse rejects, and bytes
\* that are not UTF-8
Defining == {"v1", "v2"}
SourceContents == Defining \cup {"plain", "bad", "bin"}
SourceContentsOf(f) == IF EndsWith(f, DotPy) THEN SourceContents ELSE {"v1"}

\* registry.json: absent, unparsable, or the JSON list last written
NoRegistry == [kind |-> "missing", data |-> <<>>]
BadRegistry == [kind |-> "corrupt", data |-> <<>>]
Registry(l) == [kind |-> "json", data |-> l]

\* run(), line 144: the output file of a source file
OutPath(f) == f \o DotMd

\* render_markdown: the text of a .md file, with the time it was rendered
Markdown(f, h, n) == [source |-> f, source_hash |-> h, generated_on |-> n]

\* run(), lines 161-168: the registry entry of a rendered file
Entry(f, h, n) ==
    [source |-> f, output |-> OutPath(f), source_hash |-> h, generated_at |-> n]

CAEnded == {"idle", "done", "crashed"}

-----------------------------------------------------------------------------
(* CodeAwareDocGenerator: the operations.                                  *)

CAInit ==
    /\ sources \in UNION {[E -> {"v1", "plain"}] : E \in SUBSET SourcePaths}
    /\ \A f \in DOMAIN sources : sources[f] \in SourceContentsOf(f)
    /\ registry_file = NoRegistry
    /\ md_files = Empty
    /\ cpc = "idle"
    /\ pending = <<>>
    /\ existing_registry = Empty
    /\ registry = <<>>
    /\ generated = {}
    /\ parsed = {}
    /\ docs0 = Empty
    /\ scanned = {}
    /\ cruns = 0
    /\ cedits = 0

\* a file of the source tree is created, rewritten or deleted between two runs
EditSource ==
    /\ cpc \in CAEnded
    /\ cedits < MaxEdits
    /\ \E f \in SourcePaths :
          \/ \E c \in SourceContentsOf(f) :
                /\ f \in DOMAIN sources => sources[f] # c
                /\ sources' = Put(sources, f, c)
          \/ /\ f \in DOMAIN sources
             /\ sources' = [x \in DOMAIN sources \ {f} |-> sources[x]]
    /\ cedits' = cedits + 1
    /\ UNCHANGED <<gitVars, fsVars, buildVars, fnVars>>
    /\ UNCHANGED <<registry_file, md_files, cpc, pending, existing_registry,
                   registry, generated, parsed, docs0, scanned, cruns>>

\* a generated .md file is removed from output_dir between two runs
RemoveDoc ==
    /\ cpc \in CAEnded
    /\ cedits < MaxEdits
    /\ \E n \in DOMAIN md_files :
          md_files' = [x \in DOMAIN md_files \ {n} |-> md_files[x]]
    /\ cedits' = cedits + 1
    /\ UNCHANGED <<gitVars, fsVars, buildVars, fnVars>>
    /\ UNCHANGED <<sources, registry_file, cpc, pending, existing_registry,
                   registry, generated, parsed, docs0, scanned, cruns>>

\* registry.json is damaged between two runs
CorruptRegistry ==
    /\ cpc \in CAEnded
    /\ registry_file.kind = "json"
    /\ registry_file' = BadRegistry
    /\ UNCHANGED <<gitVars, fsVars, buildVars, fnVars>>
    /\ UNCHANGED <<sources, md_files, cpc, pending, existing_registry, registry,
                   generated, parsed, docs0, scanned, cruns, cedits>>

\* scan_files(): the .py files under source_dir
ScanFiles == {f \in DOMAIN sources : EndsWith(f, DotPy)}

\* _load_registry: {} when registry.json is absent or cannot be parsed, else
\* the entries of the list by their 'source' (the last of two wins)
LoadRegistry(rf) ==
    IF rf.kind # "json"
    THEN Empty
    ELSE [s \in {rf.data[i].source : i \in 1..Len(rf.data)} |->
            rf.data[CHOOSE i \in 1..Len(rf.data) :
                       /\ rf.data[i].source = s
                       /\ \A j \in 1..Len(rf.data) :
                             rf.data[j].source = s => j <= i]]

\* __init__ and run(), lines 135-138: a new generator scans and loads
StartGenerator ==
    /\ cpc \in CAEnded
    /\ cruns < MaxRuns
    /\ pending' = Sorted(ScanFiles)
    /\ scanned' = ScanFiles
    /\ existing_registry' = LoadRegistry(registry_file)
    /\ registry' = <<>>
    /\ generated' = {}
    /\ parsed' = {}
    /\ docs0' = md_files
    /\ cpc' = "loop"
    /\ cruns' = cruns + 1
    /\ UNCHANGED <<gitVars, fsVars, buildVars, fnVars>>
    /\ UNCHANGED <<sources, registry_file, md_files, cedits>>

\* the test of line 147 without out_path.exists()
UnchangedByHash(existing, f, h) ==
    /\ f \in DOMAIN existing
    /\ existing[f].source_hash = h

\* run(), lines 146-147: the file is skipped
Unchanged(existing, f, h) ==
    /\ f \in DOMAIN existing
    /\ existing[f].source_hash = h
    /\ OutPath(f) \in DOMAIN md_files

\* run(), lines 140-169: one iteration of the loop.  parse_python_file
\* opens the file as UTF-8 outside its try, so undecodable bytes end run();
\* a SyntaxError or a file that defines nothing gives no items.
GenerateOne ==
    /\ cpc = "loop"
    /\ pending # <<>>
    /\ LET f == Head(pending)
           h == Md5(sources[f])
       IN  IF Unchanged(existing_registry, f, h)
           THEN /\ registry' = Append(registry, existing_registry[f])
                /\ pending' = Tail(pending)
                /\ UNCHANGED <<md_files, generated, parsed, cpc>>
           ELSE IF sources[f] = "bin"
           THEN /\ cpc' = "crashed"
                /\ parsed' = parsed \cup {f}
                /\ UNCHANGED <<md_files, generated, registry, pending>>
           ELSE IF sources[f] \notin Defining
           THEN /\ pending' = Tail(pending)
                /\ parsed' = parsed \cup {f}
                /\ UNCHANGED <<md_files, generated, registry, cpc>>
           ELSE /\ md_files' = Put(md_files, OutPath(f), Markdown(f, h, cruns))
                /\ registry' = Append(registry, Entry(f, h, cruns))
                /\ generated' = generated \cup {f}
                /\ parsed' = parsed \cup {f}
                /\ pending' = Tail(pending)
                /\ UNCHANGED cpc
    /\ UNCHANGED <<gitVars, fsVars, buildVars, fnVars>>
    /\ UNCHANGED <<sources, registry_file, existing_registry, docs0, scanned,
                   cruns, cedits>>

\* run(), lines 171-173: registry.json is written
WriteRegistry ==
    /\ cpc = "loop"
    /\ pending = <<>>
    /\ registry_file' = Registry(registry)
    /\ cpc' = "done"
    /\ UNCHANGED <<gitVars, fsVars, buildVars, fnVars>>
    /\ UNCHANGED <<sources, md_files, pending, existing_registry, registry,
                   generated, parsed, docs0, scanned, cruns, cedits>>

-----------------------------------------------------------------------------
(* The functions of paths: _should_skip and the names of the output files. *)

VenvDir == <<"v", "e", "n", "v">>
MyVenv_py == <<"m", "y">> \o VenvDir \o DotPy
Venv_A_py == VenvDir \o <<Sep>> \o A_py
GitHub_A_py == <<".", "g", "i", "t", "h", "u", "b", Sep>> \o A_py
P_A_py == <<"p", "_", "a">> \o DotPy

\* the directories a project may be in: /w, and /venvs/w
ProjectDirs == {ProjectDir, <<Sep>> \o VenvDir \o <<"s">> \o ProjectDir}

\* the relative paths the functions are applied to
NamePaths == {A_py, B_py, PA_py, P_A_py, MyVenv_py, Venv_A_py, GitHub_A_py}

FnInit ==
    /\ project_dir \in ProjectDirs
    /\ rel_paths \in NamePaths \X NamePaths
    /\ applied = {}
    /\ skipped = "none"
    /\ md_written = Empty
    /\ html_written = Empty

\* stage_change_detection, line 66: self._should_skip(filepath)
CallShouldSkip ==
    /\ "skip" \notin applied
    /\ skipped' = IF ShouldSkipIn(project_dir, rel_paths[1]) THEN "skip" ELSE "keep"
    /\ applied' = applied \cup {"skip"}
    /\ UNCHANGED <<gitVars, fsVars, caVars, buildVars>>
    /\ UNCHANGED <<project_dir, rel_paths, md_written, html_written>>

\* resolve_affected, lines 70-73, and regenerate_docs, lines 100-101: the
\* modules of the two paths are regenerated, in sorted order
WriteMarkdown ==
    /\ "md" \notin applied
    /\ LET mods == Sorted({ChangedModule(rel_paths[1]), ChangedModule(rel_paths[2])})
           first == WriteDoc(Empty, OutName(mods[1]), mods[1])
       IN  md_written' = IF Len(mods) = 1 THEN first
                         ELSE WriteDoc(first, OutName(mods[2]), mods[2])
    /\ applied' = applied \cup {"md"}
    /\ UNCHANGED <<gitVars, fsVars, caVars, buildVars>>
    /\ UNCHANGED <<project_dir, rel_paths, skipped, html_written>>

\* stage_site_generation, lines 283-320: the pages of the two paths are
\* written, in the order of the analysis
WriteHtml ==
    /\ "html" \notin applied
    /\ html_written' = Put(Put(Empty, SafeName(rel_paths[1]), rel_paths[1]),
                           SafeName(rel_paths[2]), rel_paths[2])
    /\ applied' = applied \cup {"html"}
    /\ UNCHANGED <<gitVars, fsVars, caVars, buildVars>>
    /\ UNCHANGED <<project_dir, rel_paths, skipped, md_written>>

\* no CodeAwareDocGenerator runs
CAOff ==
    /\ sources = Empty
    /\ registry_file = NoRegistry
    /\ md_files = Empty
    /\ cpc = "off"
    /\ pending = <<>>
    /\ existing_registry = Empty
    /\ registry = <<>>
    /\ generated = {}
    /\ parsed = {}
    /\ docs0 = Empty
    /\ scanned = {}
    /\ cruns = 0
    /\ cedits = 0

\* no FullStackDocPipeline runs
FSOff ==
    /\ files = Empty
    /\ cache_file = NoCache
    /\ fpc = "off"
    /\ fchanged = {}
    /\ analysis = Empty
    /\ stages = <<>>
    /\ errors = {}
    /\ search_index = NoListing
    /\ site_index = NoListing
    /\ pages = Empty
    /\ report_file = NoRunReport
    /\ runs = 0
    /\ edits = 0
    /\ written = {}
    /\ store0 = NoCache
    /\ touched = FALSE
    /\ quiet = FALSE
    /\ raised = "none"

\* no GitDrivenDocPipeline runs
GitOff ==
    /\ repo = Empty
    /\ pc = "off"
    /\ changed = {}
    /\ dep_graph = Empty
    /\ import_map = Empty
    /\ changed_modules = {}
    /\ affected = {}
    /\ queue = <<>>
    /\ visited = {}
    /\ regenerated = <<>>
    /\ docs = Empty
    /\ report = NoReport
    /\ diff_result = "none"
    /\ expansions = Empty
    /\ py_files = <<>>
    /\ matches = <<>>

\* no function of paths is applied on its own
FnOff ==
    /\ project_dir = <<>>
    /\ rel_paths = <<>>
    /\ applied = {}
    /\ skipped = "none"
    /\ md_written = Empty
    /\ html_written = Empty

Init == GitInit /\ FSOff /\ CAOff /\ FnOff

Next ==
    \/ GetChangedFiles
    \/ BuildDependencyGraph
    \/ ResolveInit
    \/ ResolveStep
    \/ ResolveReturn
    \/ RegenerateDocs
    \/ WriteReport

Spec == Init /\ [][Next]_vars

InitFS == FSInit /\ GitOff /\ CAOff /\ FnOff

NextFS ==
    \/ EditFile
    \/ CorruptCache
    \/ StartRun
    \/ StageChangeDetection
    \/ StageCodeAnalysis
    \/ StageRagIndexing
    \/ StageLivingDocs
    \/ StageSiteGeneration
    \/ WriteRunReport
    \/ Abort

SpecFS == InitFS /\ [][NextFS]_vars

InitCA == CAInit /\ GitOff /\ FSOff /\ FnOff

NextCA ==
    \/ EditSource
    \/ RemoveDoc
    \/ CorruptRegistry
    \/ StartGenerator
    \/ GenerateOne
    \/ WriteRegistry

SpecCA == InitCA /\ [][NextCA]_vars

\* run() up to the return of resolve_affected, on repositories whose files
\* can all be read; the loop of resolve_affected runs on while its condition
\* holds
InitFair == Init /\ \A f \in DOMAIN repo : repo[f].utf8

NextFair ==
    \/ GetChangedFiles
    \/ BuildDependencyGraph
    \/ ResolveInit
    \/ ResolveStep
    \/ ResolveReturn

SpecFair == InitFair /\ [][NextFair]_vars /\ WF_vars(ResolveStep)

\* build_dependency_graph statement by statement, on a new pipeline object
\* whose run() got a list of changed names that is not empty
InitBuild ==
    /\ repo \in Repos
    /\ pc = "build"
    /\ changed = DOMAIN repo \cup {R_md}
    /\ dep_graph = Empty
    /\ import_map = Empty
    /\ changed_modules = {}
    /\ affected = {}
    /\ queue = <<>>
    /\ visited = {}
    /\ regenerated = <<>>
    /\ docs = Empty
    /\ report = NoReport
    /\ diff_result = "ok"
    /\ expansions = Empty
    /\ py_files = <<>>
    /\ matches = <<>>
    /\ FSOff
    /\ CAOff
    /\ FnOff

NextBuild ==
    \/ ListPyFiles
    \/ ReadFile
    \/ AddImport
    \/ NextFile
    \/ EndBuild

SpecBuild == InitBuild /\ [][NextBuild]_vars

\* the functions of paths, each applied once to the paths drawn
InitNames == FnInit /\ GitOff /\ FSOff /\ CAOff

NextNames ==
    \/ CallShouldSkip
    \/ WriteMarkdown
    \/ WriteHtml

SpecNames == InitNames /\ [][NextNames]_vars

-----------------------------------------------------------------------------
(* Claims about resolve_affected.                                          *)

\* resolve_affected has built its sets (the loop is running or is over)
Resolved == pc \in {"regen", "report", "crashed"}

\* the least set that holds S and, with a node, the node's dependents in g
RECURSIVE DependentsClosure(_, _)
DependentsClosure(S, g) ==
    LET N == S \cup UNION {Get(g, n) : n \in S}
    IN  IF N = S THEN S ELSE DependentsClosure(N, g)

\* m lies on a cycle of g
OnCycle(m, g) == m \in DependentsClosure(Get(g, m), g)

\* C1: from the first iteration of the loop to the return of
\* resolve_affected, the module id of every changed .py file is in affected.
C1_ChangedSubsetAffected ==
    pc \in {"resolve", "regen", "report", "crashed"} =>
        \A f \in changed : EndsWith(f, DotPy) => ChangedModule(f) \in affected

\* C1 witness: resolve_affected has returned for a changed module that lies
\* on a cycle of the graph.
C1_Witness ==
    /\ pc = "regen"
    /\ \E f \in changed :
          /\ EndsWith(f, DotPy)
          /\ OnCycle(ChangedModule(f), dep_graph)
          /\ Cardinality(affected) > 1

\* C2: the set resolve_affected returns is exactly the closure of the changed
\* modules under the dependents relation of the graph.
C2_AffectedIsClosure ==
    Resolved => affected = DependentsClosure(changed_modules, dep_graph)

\* C2 witness: resolve_affected returns a module that is neither changed nor
\* a direct dependent of a changed module.
C2_Witness ==
    /\ pc = "regen"
    /\ \E m \in affected :
          /\ m \notin changed_modules
          /\ m \notin UNION {Get(dep_graph, c) : c \in changed_modules}

\* C3: once the loop of resolve_affected is entered, the queue becomes empty.
C3_ResolveTerminates == (pc = "resolve") ~> (queue = <<>>)

\* C3 witness: the loop has ended after visiting two modules that import
\* each other.
C3_Witness ==
    /\ pc = "regen"
    /\ \E m, n \in visited :
          m # n /\ m \in Get(dep_graph, n) /\ n \in Get(dep_graph, m)

-----------------------------------------------------------------------------
(* Claims about the runs.                                                  *)

Range(q) == {q[i] : i \in 1..Len(q)}

\* the stages run() declares, in order
DeclaredStages ==
    <<"change_detection", "code_analysis", "rag_indexing", "living_docs",
      "site_generation">>

\* C4: a FullStackDocPipeline run that follows a completed run, with no edit
\* in between, finds nothing changed and regenerates no artifact: it writes
\* no module page.
C4_SecondRunRegeneratesNothing ==
    (fpc = "done" /\ quiet) =>
        /\ fchanged = {}
        /\ \A o \in written : o.kind # "page"

\* C5: when regenerate_docs has returned in a run whose changed files all
\* exist, a readable source file of the repository has been regenerated if
\* and only if its module id is in the affected set.
C5_RegeneratedIffAffected ==
    (pc = "report" /\ changed \subseteq DOMAIN repo) =>
        \A f \in DOMAIN repo :
            repo[f].utf8 =>
                (BuildModule(f) \in Range(regenerated) <=> BuildModule(f) \in affected)

\* C6: a completed FullStackDocPipeline run has not rewritten the page of a
\* Python file that is outside the run's changed (affected) set.
C6_UnaffectedOutputsUntouched ==
    fpc = "done" =>
        \A f \in DOMAIN files :
            (EndsWith(f, DotPy) /\ f \notin fchanged) =>
                Out("page", SafeName(f)) \notin written

\* C7: when regenerate_docs is over, by return or by an exception of one
\* module's transform, every affected module whose source file exists and
\* can be read has been regenerated.
C7_OthersStillRegenerated ==
    pc \in {"crashed", "report"} =>
        \A m \in affected :
            (HasSource(m) /\ repo[SourceOf(m)].utf8) => m \in Range(regenerated)

\* C8: when a stage of FullStackDocPipeline.run has raised, the run does not
\* end there: every declared stage appends its record and the error is in the
\* run's error list under the stage's name.
C8_StageErrorsCaught ==
    (raised # "none" /\ fpc \in {"done", "crashed"}) =>
        /\ stages = DeclaredStages
        /\ \E e \in errors : e[1] = raised

\* C9: a run of GitDrivenDocPipeline that returns has written its report.
C9_ReportAlwaysWritten == pc = "done" => report.exists

\* C10: when a FullStackDocPipeline run that found a parseable Python file
\* changed is aborted between two stages, the fingerprint store on disk is
\* still the store the run started with.
C10_StoreIntactOnAbort ==
    (fpc = "aborted" /\ \E f \in fchanged : EndsWith(f, DotPy) /\ files[f] \in Parsing)
        => cache_file = store0

-----------------------------------------------------------------------------
(* Claims about the fingerprint store.                                     *)

\* stage 1 of the current FullStackDocPipeline run has returned
Detected ==
    fpc \in {"code_analysis", "rag_indexing", "living_docs", "site_generation",
             "report"}

\* C11: a FullStackDocPipeline run that finds an unparsable .doc-cache.json
\* gets past the loading of the store: no stage of the run raises.
C11_LoadFailsSoft ==
    (store0.kind = "corrupt" /\ fpc # "change_detection") => raised = "none"

\* C12: when stage_change_detection has returned, an enumerated file is in
\* the changed list if and only if the store the run started with has no
\* entry for it or has another hash for it; nothing else is reported.
C12_ChangedIffAbsentOrDiffers ==
    Detected =>
        /\ fchanged \subseteq Enumerated
        /\ \A f \in Enumerated :
              f \in fchanged <=>
                  (f \notin DOMAIN store0.data \/ store0.data[f] # Md5(files[f]))

\* C12 witness: stage_change_detection has returned on a store that knows two
\* files, reporting the one whose hash differs and not the one whose hash is
\* equal.
C12_Witness ==
    /\ fpc = "code_analysis"
    /\ \E f, g \in Enumerated \cap DOMAIN store0.data :
          /\ f \in fchanged /\ store0.data[f] # Md5(files[f])
          /\ g \notin fchanged /\ store0.data[g] = Md5(files[g])

\* the sources registry.json has an entry for
Registered == {registry_file.data[i].source : i \in 1..Len(registry_file.data)}

\* C13: after a run of CodeAwareDocGenerator, registry.json has an entry for
\* exactly the source files the run enumerated.
C13_StoreHoldsExactlyEnumerated == cpc = "done" => Registered = scanned

\* C14: a FullStackDocPipeline run that starts on a missing or unparsable
\* store completes, reports every enumerated file as changed, writes the page
\* of every Python file that parses, and leaves the store of the enumerated
\* files on disk.
C14_FullRebuildOnBadStore ==
    (store0.kind # "json" /\ fpc \in {"done", "crashed"} /\ ~touched) =>
        /\ fpc = "done"
        /\ fchanged = Enumerated
        /\ \A f \in Enumerated :
              (EndsWith(f, DotPy) /\ files[f] \in Parsing) =>
                  Out("page", SafeName(f)) \in written
        /\ cache_file = Cache([f \in Enumerated |-> Md5(files[f])])

\* the module pages the current run has written
PagesWritten == {o \in written : o.kind = "page"}

\* the store a run leaves of a.py and b.py as first written
StoreOfFirstRun == Cache([f \in {A_py, B_py} |-> Md5("v1")])

\* C15: on a project of a.py and b.py (the text v1 of b.py being `import a`;
\* no stage reads imports), the first run reports both files and writes two
\* pages; the second run, nothing edited, reports nothing and writes no
\* page; the third run, a.py alone rewritten since the second, reports a.py
\* and writes the pages of a.py and of its dependent b.py.
C15_ThreeRunScenario ==
    (fpc = "done" /\ ~touched /\ DOMAIN files = {A_py, B_py}
                  /\ files[B_py] = "v1") =>
        /\ (runs = 1 /\ files[A_py] = "v1") =>
              /\ fchanged = {A_py, B_py}
              /\ Cardinality(PagesWritten) = 2
        /\ (runs = 2 /\ quiet /\ files[A_py] = "v1") =>
              /\ fchanged = {}
              /\ Cardinality(PagesWritten) = 0
        /\ (runs = 3 /\ ~quiet /\ store0 = StoreOfFirstRun /\ files[A_py] = "v2") =>
              /\ fchanged = {A_py}
              /\ Cardinality(PagesWritten) = 2

-----------------------------------------------------------------------------
(* More claims about resolve_affected and the runs.                        *)

ModA == <<"a">>
ModB == <<"b">>

\* the graph holds the cycle of a and b, and nothing else depends on them
TwoCycle == Get(dep_graph, ModA) = {ModB} /\ Get(dep_graph, ModB) = {ModA}

\* C16: on a graph in which a and b import each other, resolve_affected
\* called with a alone changed, or with b alone changed, empties its queue
\* with affected = {a, b}.
C16_TwoNodeCycleResolves ==
    (pc = "resolve" /\ TwoCycle /\ changed_modules \in {{ModA}, {ModB}})
        ~> (queue = <<>> /\ affected = {ModA, ModB})

\* C16 witness: resolve_affected has returned {a, b} on the cycle with b
\* alone changed.
C16_Witness ==
    /\ pc = "regen"
    /\ TwoCycle
    /\ changed_modules = {ModB}
    /\ affected = {ModA, ModB}

IsPrefix(s, t) == Len(s) <= Len(t) /\ s = SubSeq(t, 1, Len(s))

Readable == \A f \in DOMAIN repo : repo[f].utf8

\* C18: when git diff did not give an answer (it failed, timed out, or git
\* is not there), the changed list of a run on a readable repository is the
\* full tree of its .py files.
C18_FallbackOnUnavailableDiff ==
    (pc # "start" /\ diff_result \in {"failed", "timeout", "notfound"}
                 /\ Readable) =>
        changed = DOMAIN repo

\* C19: when the graph of a readable repository has been built in a run
\* whose changed files all exist, two distinct source files of the
\* repository have distinct module ids, and a changed file has the id it had
\* while the graph was built.
C19_ArtifactIdsUnique ==
    (pc = "resolve_init" /\ Readable /\ changed \subseteq DOMAIN repo) =>
        /\ \A f, g \in DOMAIN repo : f # g => BuildModule(f) # BuildModule(g)
        /\ \A f \in changed \cap DOMAIN repo : ChangedModule(f) = BuildModule(f)

\* C20: the loop of resolve_affected has expanded no module twice, and the
\* modules it has expanded are exactly the visited ones: every expansion
\* added a module to visited.
C20_ExpandedAtMostOnce ==
    /\ DOMAIN expansions = visited
    /\ \A m \in DOMAIN expansions : expansions[m] = 1

\* C20 witness: resolve_affected has returned after expanding, once, a module
\* that is a dependent of two other expanded modules.
C20_Witness ==
    /\ pc = "regen"
    /\ \E m, x, y \in visited :
          /\ x # y /\ m # x /\ m # y
          /\ m \in Get(dep_graph, x) \cap Get(dep_graph, y)
          /\ expansions[m] = 1

-----------------------------------------------------------------------------
(* Claims about the order of traversal and about nodes without entry.      *)

\* the loop of resolve_affected on graph g, every set iterated in sorted
\* order
RECURSIVE ResolveLoop(_, _, _, _)
ResolveLoop(q, aff, vis, g) ==
    IF q = <<>>
    THEN aff
    ELSE LET current == Head(q)
             new == Get(g, current) \ aff
         IN  IF current \in vis
             THEN ResolveLoop(Tail(q), aff, vis, g)
             ELSE ResolveLoop(Tail(q) \o Sorted(new), aff \cup new,
                              vis \cup {current}, g)

\* resolve_affected on graph g, every set iterated in sorted order
ResolveSorted(cm, g) == ResolveLoop(SeedQueue(Sorted(cm)), SeedAffected(cm), {}, g)

\* C21: whatever the order in which the changed set was queued and the
\* dependents of each node were iterated, resolve_affected returns the set it
\* returns when every set is iterated in sorted order.
C21_OrderIndependent ==
    Resolved => affected = ResolveSorted(changed_modules, dep_graph)

\* C21 witness: resolve_affected has returned after queueing two changed
\* modules, of which one alone has a dependent outside the changed set.
C21_Witness ==
    /\ pc = "regen"
    /\ Cardinality(changed_modules) = 2
    /\ \E m, n \in changed_modules :
          /\ m # n
          /\ Get(dep_graph, m) \ changed_modules # {}
          /\ Get(dep_graph, n) \ changed_modules = {}

\* C22: when resolve_affected has returned, every changed and every reached
\* id has been expanded, ids without a graph entry and ids without a source
\* file included, and nothing was reached through an id without entry: the
\* result is the closure of the changed ids that have an entry, plus the
\* changed ids that have none.
C22_NoEntryIsNoError ==
    pc = "regen" =>
        /\ visited = affected
        /\ affected = changed_modules \cup
              DependentsClosure(changed_modules \cap DOMAIN dep_graph, dep_graph)

\* C22 witness: resolve_affected has returned on a changed id that has no
\* graph entry and no source file, and on a graph that has an import target
\* without source file, reaching a dependent of another changed id.
C22_Witness ==
    /\ pc = "regen"
    /\ \E m \in changed_modules : m \notin DOMAIN dep_graph /\ ~HasSource(m)
    /\ \E i \in DOMAIN dep_graph : ~HasSource(i)
    /\ affected # changed_modules

\* g without the edges from a node to itself
StripSelfLoops(g) == [k \in DOMAIN g |-> g[k] \ {k}]

\* C23: resolve_affected returns what it returns on the graph without its
\* self-loops.
C23_SelfLoopsAddNothing ==
    Resolved =>
        affected = ResolveSorted(changed_modules, StripSelfLoops(dep_graph))

\* C23 witness: resolve_affected has returned after expanding a module that
\* imports itself.
C23_Witness ==
    /\ pc = "regen"
    /\ \E m \in visited : m \in Get(dep_graph, m)

\* C29: no step of resolve_affected or of regenerate_docs changes dep_graph
\* or import_map.
C29_GraphOnlyRead ==
    [][(pc \in {"resolve_init", "resolve", "regen"}) =>
          (dep_graph' = dep_graph /\ import_map' = import_map)]_vars

\* C29 witness: regenerate_docs has returned after documenting a module that
\* has no entry in either map, which resolve_affected had looked up too.
C29_Witness ==
    /\ pc = "report"
    /\ \E i \in 1..Len(regenerated) :
          /\ regenerated[i] \notin DOMAIN dep_graph
          /\ regenerated[i] \notin DOMAIN import_map
          /\ regenerated[i] \in visited


-----------------------------------------------------------------------------
(* Claims about the listings of the site and about the registry.           *)

\* the Python files of the project that parse, are not skipped, and have a
\* module page in site/modules
Paged ==
    {f \in DOMAIN files :
        /\ EndsWith(f, DotPy)
        /\ files[f] \in Parsing
        /\ ~ShouldSkip(f)
        /\ SafeName(f) \in DOMAIN pages
        /\ pages[SafeName(f)].source = f}

\* C27: after every completed run of FullStackDocPipeline, incremental runs
\* included, site/index.html and search-index.json list every Python file of
\* the project that parses, is not skipped and has a generated module page.
C27_ListingsCoverPagedFiles ==
    (fpc = "done" /\ ~touched) =>
        /\ Paged \subseteq site_index.sources
        /\ Paged \subseteq search_index.sources

\* the files line 147 has to skip in the current run: a prior entry of equal
\* source_hash, and the output file on disk when the run started
ToSkip ==
    {f \in scanned :
        /\ f \in DOMAIN existing_registry
        /\ existing_registry[f].source_hash = Md5(sources[f])
        /\ OutPath(f) \in DOMAIN docs0}

\* the places of self.registry that hold an entry of the source f
EntriesOf(f) == {i \in 1..Len(registry) : registry[i].source = f}

\* C30: in a run of CodeAwareDocGenerator, a file that has a prior entry of
\* equal source_hash and whose output file exists is not parsed, its output
\* file stays as it was and its prior entry is the one entry of the file in
\* the new registry; every other file the loop has gone through was given to
\* parse_python_file; registry.json as written holds self.registry, entries
\* of scanned files only.
C30_SkipsExactlyUnchanged ==
    /\ cpc = "loop" =>
          \A f \in scanned \ Range(pending) :
              IF f \in ToSkip
              THEN /\ f \notin parsed
                   /\ md_files[OutPath(f)] = docs0[OutPath(f)]
                   /\ Cardinality(EntriesOf(f)) = 1
                   /\ \A i \in EntriesOf(f) : registry[i] = existing_registry[f]
              ELSE f \in parsed
    /\ (cpc = "done" /\ registry_file.kind = "json") =>
          /\ registry_file = Registry(registry)
          /\ Registered \subseteq scanned

\* a second run has ended that skipped one file, whose entry of the first
\* run is in registry.json, and rendered another
C30_Witness ==
    /\ cpc = "done"
    /\ registry_file = Registry(registry)
    /\ generated # {}
    /\ \E f \in scanned \ parsed :
          \E i \in EntriesOf(f) : registry[i].generated_at < cruns

-----------------------------------------------------------------------------
(* Claims about build_dependency_graph.                                    *)

\* the files build_dependency_graph can read
ReadableFiles == {f \in DOMAIN repo : repo[f].utf8}

\* C24: when build_dependency_graph has returned, the edge from an imported
\* name to the module of a source file is in dep_graph if and only if the
\* text of that file has an import of the name.
C24_GraphReflectsSources ==
    pc = "resolve_init" =>
        \A f \in ReadableFiles : \A i \in ImportNames :
            BuildModule(f) \in Get(dep_graph, i) <=> i \in repo[f].imports

\* the two maps hold the same edges, each in its own direction
MutualInverses(dg, im) ==
    /\ \A i \in DOMAIN dg : \A m \in dg[i] : i \in Get(im, m)
    /\ \A m \in DOMAIN im : \A i \in im[m] : m \in Get(dg, i)

\* C28: after each import statement build_dependency_graph has processed,
\* and when it has returned, module m is in dep_graph[i] if and only if i is
\* in import_map[m].
C28_MapsAreInverses ==
    pc \in {"build", "build_scan", "build_imports", "resolve_init"} =>
        MutualInverses(dep_graph, import_map)

\* the build is between two import statements of a file, the first of which
\* it has processed
C28_Witness ==
    /\ pc = "build_imports"
    /\ matches # <<>>
    /\ \E i \in DOMAIN dep_graph : \E m \in dep_graph[i] : i # m

-----------------------------------------------------------------------------
(* Claims about the functions of paths.                                    *)

\* the components of a relative path
RECURSIVE Components(_, _)
Components(path, cur) ==
    IF path = <<>> THEN {cur}
    ELSE IF Head(path) = Sep THEN {cur} \cup Components(Tail(path), <<>>)
    ELSE Components(Tail(path), Append(cur, Head(path)))

\* C25: _should_skip excludes a file if and only if an ignore pattern is a
\* whole component of its path under the project root.
C25_SkippedIffComponent ==
    "skip" \in applied =>
        (skipped = "skip" <=>
            \E p \in IgnorePatterns : p \in Components(rel_paths[1], <<>>))

\* C26: the modules of two paths, when they differ, are written to two .md
\* files, and two paths that differ are written to two .html pages.
C26_OutputNamesInjective ==
    /\ "md" \in applied =>
          (ChangedModule(rel_paths[1]) # ChangedModule(rel_paths[2]) =>
              Cardinality(DOMAIN md_written) = 2)
    /\ "html" \in applied =>
          (rel_paths[1] # rel_paths[2] =>
              Cardinality(DOMAIN html_written) = 2)

====
